---------------------------- MODULE Spec2Model ----------------------------
(***************************************************************************)
(* Shape-level model of base_model.py: the UNet and UResNet networks, the  *)
(* building blocks they are composed of, and the tensor-library primitives *)
(* those blocks call.  A tensor is its shape (B, C, H, W); a primitive     *)
(* either yields the shape of its result or the fault the library raises.  *)
(* A forward call is a sequence of steps, one per layer applied by the     *)
(* forward method.  The only state that outlives a call is the module's    *)
(* training flag and the num_batches_tracked buffer of every BatchNorm2d.  *)
(***************************************************************************)
EXTENDS Integers, Sequences, FiniteSets, TLC

\* ------------------------------------------------------------------ bounds
MaxDim == 32      \* input height and width range over 1..MaxDim
MaxBatch == 2     \* input batch size ranges over 1..MaxBatch
MaxCalls == 2     \* forward calls made on one constructed module
MaxUpDim == 3     \* height/width of x1 in a direct call of up.forward
MaxSkipDim == 8   \* height/width of x2 in a direct call of up.forward

\* ------------------------------------------------------------------ tensors
Tensor(b, c, h, w) == [B |-> b, C |-> c, H |-> h, W |-> w, err |-> ""]

Err(e) == [B |-> 0, C |-> 0, H |-> 0, W |-> 0, err |-> e]

NoT == Tensor(0, 0, 0, 0)

Ok(t) == t.err = ""

SameHW(a, b) == a.H = b.H /\ a.W = b.W

Max(a, b) == IF a >= b THEN a ELSE b

\* ------------------------------------------------------- library primitives
\* nn.Conv2d(in_ch, out_ch, k, stride=s, padding=p)
Conv2d(in_ch, out_ch, k, s, p, t) ==
    IF ~Ok(t) THEN t
    ELSE IF t.C # in_ch THEN Err("channels")
    ELSE IF t.H + 2 * p < k \/ t.W + 2 * p < k THEN Err("size")
    ELSE Tensor(t.B, out_ch, ((t.H + 2 * p - k) \div s) + 1,
                             ((t.W + 2 * p - k) \div s) + 1)

\* nn.BatchNorm2d(nf): in training mode the batch statistics need more than
\* one value per channel
BatchNorm2d(nf, tr, t) ==
    IF ~Ok(t) THEN t
    ELSE IF t.C # nf THEN Err("channels")
    ELSE IF tr /\ t.B * t.H * t.W = 1 THEN Err("batchnorm")
    ELSE t

\* nn.ReLU(inplace=True)
ReLU(t) == t

\* MaxPool2d with ceil_mode=True in place of the default floor mode
MaxPool2d_Ceil(k, t) ==
    IF ~Ok(t) THEN t
    ELSE IF t.H < k \/ t.W < k THEN Err("size")
    ELSE Tensor(t.B, t.C, (t.H + k - 1) \div k, (t.W + k - 1) \div k)

\* nn.MaxPool2d(k): stride k, no padding, floor mode
MaxPool2d(k, t) ==
    IF ~Ok(t) THEN t
    ELSE IF t.H < k \/ t.W < k THEN Err("size")
    ELSE Tensor(t.B, t.C, ((t.H - k) \div k) + 1, ((t.W - k) \div k) + 1)

\* nn.Upsample(scale_factor=f, mode='bilinear', align_corners=True)
Upsample(f, t) ==
    IF ~Ok(t) THEN t ELSE Tensor(t.B, t.C, t.H * f, t.W * f)

\* F.pad(t, (left, right, top, bottom)); negative amounts crop
Pad(t, p) ==
    IF ~Ok(t) THEN t
    ELSE IF t.W + p.left + p.right < 0 \/ t.H + p.top + p.bottom < 0
         THEN Err("pad")
    ELSE Tensor(t.B, t.C, t.H + p.top + p.bottom, t.W + p.left + p.right)

\* torch.cat([a, b], dim=1)
Cat(a, b) ==
    IF ~Ok(a) THEN a
    ELSE IF ~Ok(b) THEN b
    ELSE IF a.B # b.B \/ ~SameHW(a, b) THEN Err("cat")
    ELSE Tensor(a.B, a.C + b.C, a.H, a.W)

BroadcastOk(m, n) == m = n \/ m = 1 \/ n = 1

\* a + b, with the library's broadcasting of dimensions of size 1
Add(a, b) ==
    IF ~Ok(a) THEN a
    ELSE IF ~Ok(b) THEN b
    ELSE IF ~(BroadcastOk(a.B, b.B) /\ BroadcastOk(a.C, b.C)
              /\ BroadcastOk(a.H, b.H) /\ BroadcastOk(a.W, b.W))
         THEN Err("add")
    ELSE Tensor(Max(a.B, b.B), Max(a.C, b.C), Max(a.H, b.H), Max(a.W, b.W))

\* nn.ConvTranspose2d(in_ch, out_ch, k, stride=s, padding=p) called with
\* output_size=size: the size must be one the layer can produce
ConvTranspose2d(in_ch, out_ch, k, s, p, t, size) ==
    IF ~Ok(t) THEN t
    ELSE IF t.C # in_ch THEN Err("channels")
    ELSE LET minH == (t.H - 1) * s - 2 * p + k
             minW == (t.W - 1) * s - 2 * p + k
         IN IF size.H < minH \/ size.H > minH + s - 1
               \/ size.W < minW \/ size.W > minW + s - 1
            THEN Err("output_size")
            ELSE Tensor(t.B, out_ch, size.H, size.W)

\* ---------------------------------------------------------- building blocks
\* double_conv: (conv => BN => ReLU) * 2.  bn[i] tells whether the i-th
\* BatchNorm2d of the block was entered.
double_conv(in_ch, out_ch, tr, t) ==
    LET a == Conv2d(in_ch, out_ch, 3, 1, 1, t)
        b == ReLU(BatchNorm2d(out_ch, tr, a))
        c == Conv2d(out_ch, out_ch, 3, 1, 1, b)
        d == ReLU(BatchNorm2d(out_ch, tr, c))
    IN [out |-> d, bn |-> <<Ok(a), Ok(c)>>]

\* down: MaxPool2d(2) then double_conv
down(in_ch, out_ch, tr, t) ==
    LET pooled == MaxPool2d(2, t)
        r == double_conv(in_ch, out_ch, tr, pooled)
    IN [out |-> r.out, bn |-> r.bn, pooled |-> pooled]

\* up.forward padding both sides of an axis by diff // 2
UpPadding_Symmetric(x1, x2) ==
    LET diffY == x2.H - x1.H
        diffX == x2.W - x1.W
    IN [left |-> diffX \div 2, right |-> diffX \div 2,
        top |-> diffY \div 2, bottom |-> diffY \div 2]

\* up.forward handing the height discrepancy to the width axis and back
UpPadding_Swapped(x1, x2) ==
    LET diffY == x2.H - x1.H
        diffX == x2.W - x1.W
    IN [left |-> diffY \div 2, right |-> diffY - (diffY \div 2),
        top |-> diffX \div 2, bottom |-> diffX - (diffX \div 2)]

\* the padding tuple up.forward hands to F.pad
UpPadding(x1, x2) ==
    LET diffY == x2.H - x1.H
        diffX == x2.W - x1.W
    IN [left |-> diffX \div 2, right |-> diffX - (diffX \div 2),
        top |-> diffY \div 2, bottom |-> diffY - (diffY \div 2)]

\* up.forward(x1, x2) with bilinear=True
up(in_ch, out_ch, tr, x1, x2) ==
    LET u == Upsample(2, x1)
        p == UpPadding(u, x2)
        padded == Pad(u, p)
        cat == Cat(x2, padded)
        r == double_conv(in_ch, out_ch, tr, cat)
    IN [out |-> r.out, bn |-> r.bn, raw |-> u, pad |-> p, padded |-> padded,
        cat |-> cat]

\* outconv: 1x1 convolution
outconv(in_ch, out_ch, t) == Conv2d(in_ch, out_ch, 1, 1, 0, t)

\* Bottleneck built without its shortcut
HasShortcut_Never(stride) == FALSE

\* Bottleneck.__init__: the shortcut exists when stride > 1
HasShortcut(stride) == stride > 1

\* Bottleneck.forward
Bottleneck(inplanes, planes, stride, tr, t) ==
    LET bypass == IF HasShortcut(stride)
                  THEN Conv2d(inplanes, planes, 1, stride, 0, t)
                  ELSE t
        c1 == IF Ok(bypass) THEN Conv2d(inplanes, planes, 1, 1, 0, t) ELSE bypass
        r1 == ReLU(BatchNorm2d(planes, tr, c1))
        c2 == Conv2d(planes, planes, 3, stride, 1, r1)
        r2 == ReLU(BatchNorm2d(planes, tr, c2))
        c3 == Conv2d(planes, planes, 1, 1, 0, r2)
        residual == BatchNorm2d(planes, tr, c3)
    IN [out |-> ReLU(Add(bypass, residual)), bn |-> <<Ok(c1), Ok(c2), Ok(c3)>>,
        bypass |-> bypass, residual |-> residual]

\* ------------------------------------------------------ constructor tables
\* UNet built with down4 = down(512, 1024)
DownCh_Doubling(k) ==
    CASE k = 1 -> <<64, 128>>
      [] k = 2 -> <<128, 256>>
      [] k = 3 -> <<256, 512>>
      [] k = 4 -> <<512, 1024>>

\* UNet.__init__: (in_ch, out_ch) of down1..down4
DownCh(k) ==
    CASE k = 1 -> <<64, 128>>
      [] k = 2 -> <<128, 256>>
      [] k = 3 -> <<256, 512>>
      [] k = 4 -> <<512, 512>>

\* UNet.__init__: (in_ch, out_ch) of up1..up4
UpCh(k) ==
    CASE k = 1 -> <<1024, 256>>
      [] k = 2 -> <<512, 128>>
      [] k = 3 -> <<256, 64>>
      [] k = 4 -> <<128, 64>>

\* UNet.__init__: inc produces 64 channels and outc consumes 64
IncOut == 64

OutcIn == 64

\* UNet.forward handing the skip tensors over in the order they were made
UNetSkip_Forward(k) ==
    CASE k = 1 -> 1
      [] k = 2 -> 2
      [] k = 3 -> 3
      [] k = 4 -> 4

\* UNet.forward: the saved tensor x<i> that up<k> receives as x2
UNetSkip(k) ==
    CASE k = 1 -> 4
      [] k = 2 -> 3
      [] k = 3 -> 2
      [] k = 4 -> 1

\* UResNet.__init__: (inplanes, planes) of enc_layer1..enc_layer4
EncCh(k, p) ==
    CASE k = 1 -> <<p * 1, p * 2>>
      [] k = 2 -> <<p * 2, p * 4>>
      [] k = 3 -> <<p * 4, p * 8>>
      [] k = 4 -> <<p * 8, p * 16>>

\* UResNet built with decoder layers that do not count the skip channels
DecCh_NoSkip(k, p) ==
    CASE k = 4 -> <<p * 16, p * 8>>
      [] k = 3 -> <<p * 8, p * 4>>
      [] k = 2 -> <<p * 4, p * 2>>
      [] k = 1 -> <<p * 2, p * 1>>

\* UResNet.__init__: (inplanes, planes) of dec_layer1..dec_layer4
DecCh(k, p) ==
    CASE k = 4 -> <<p * 16, p * 8>>
      [] k = 3 -> <<p * 8 * 2, p * 4>>
      [] k = 2 -> <<p * 4 * 2, p * 2>>
      [] k = 1 -> <<p * 2 * 2, p * 1>>

\* UResNet.__init__: self.nkernels
nkernels == 16

\* UResNet.forward targeting the size of the tensor at the decoder's own depth
DecTarget_Same(k) ==
    CASE k = 4 -> 4
      [] k = 3 -> 3
      [] k = 2 -> 2
      [] k = 1 -> 1

\* UResNet.forward: the saved tensor x<i> whose size dec_layer<k> targets
DecTarget(k) ==
    CASE k = 4 -> 3
      [] k = 3 -> 2
      [] k = 2 -> 1
      [] k = 1 -> 0

\* UResNet.forward: the saved tensor x<i> concatenated after dec_layer<k>
CatSkip(k) ==
    CASE k = 4 -> 3
      [] k = 3 -> 2
      [] k = 2 -> 1

\* UResNet.forward lines 318-328: conv1/bn1/relu1 .. conv3/bn3/relu3
Stem(input_channels, p, tr, t) ==
    LET a == Conv2d(input_channels, p, 3, 1, 1, t)
        b == ReLU(BatchNorm2d(p, tr, a))
        c == Conv2d(p, p, 3, 1, 1, b)
        d == ReLU(BatchNorm2d(p, tr, c))
        e == Conv2d(p, p, 3, 1, 1, d)
        f == ReLU(BatchNorm2d(p, tr, e))
    IN [out |-> f, bn |-> <<Ok(a), Ok(c), Ok(e)>>]

\* UResNet.forward lines 389-399: conv10/bn10/relu10 .. conv12/bn12/relu12
OutStem(p, tr, t) ==
    LET a == Conv2d(p, nkernels, 3, 1, 1, t)
        b == ReLU(BatchNorm2d(nkernels, tr, a))
        c == Conv2d(nkernels, nkernels * 2, 3, 1, 1, b)
        d == ReLU(BatchNorm2d(nkernels * 2, tr, c))
        e == Conv2d(nkernels * 2, nkernels, 3, 1, 1, d)
        f == ReLU(BatchNorm2d(nkernels, tr, e))
    IN [out |-> f, bn |-> <<Ok(a), Ok(c), Ok(e)>>]

\* ConvTransposeLayer.deconv called without output_size: the smallest size
Deconv_NoOutputSize(inplanes, outplanes, t, size) ==
    ConvTranspose2d(inplanes, outplanes, 3, 2, 1, t,
                    [H |-> 2 * t.H - 1, W |-> 2 * t.W - 1])

\* ConvTransposeLayer.deconv applied with output_size
Deconv(inplanes, outplanes, t, size) ==
    ConvTranspose2d(inplanes, outplanes, 3, 2, 1, t, size)

\* BatchNorm2d counting batches in eval mode too
Tracked_Always(tr, entered, n) == IF entered THEN n + 1 ELSE n

\* BatchNorm2d.forward: a layer in training mode counts the batch it is given
Tracked(tr, entered, n) == IF tr /\ entered THEN n + 1 ELSE n

\* ------------------------------------------------------------------- state
VARIABLES
    net,                  \* the constructed module and its constructor arguments
    training,             \* nn.Module.training (TRUE after construction)
    num_batches_tracked,  \* per BatchNorm2d, the batches counted in training mode
    calls,                \* forward calls started on the module
    pc,                   \* position inside forward
    inp,                  \* the input tensor of the running call
    x,                    \* the local x of forward
    xs,                   \* the saved tensors x0..x5 of forward
    mid,                  \* the pooled tensor inside the last down stage
    btl,                  \* the last Bottleneck applied: its arguments and tensors
    dec,                  \* the last decoder pairing: upsampled tensor and skip tensor
    pad,                  \* the last padding tuple handed to F.pad
    applied,              \* the last layer applied and the channels it received
    paired,               \* per decoder stage, the saved tensors it was paired with
    err                   \* the fault that ended the call, if any

vars == <<net, training, num_batches_tracked, calls, pc, inp, x, xs, mid, btl,
          dec, pad, applied, paired, err>>

\* The modules constructed: UNet(3, 5); UResNet(num_classes=2,
\* input_channels=1, inplanes=16) as in __main__; a UResNet of width 1; and an
\* up(128, 64) stage called on its own.
Nets ==
    { [kind |-> "UNet", in_ch |-> 3, out_ch |-> 5, inplanes |-> 0],
      [kind |-> "UResNet", in_ch |-> 1, out_ch |-> 2, inplanes |-> 16],
      [kind |-> "UResNet", in_ch |-> 3, out_ch |-> 3, inplanes |-> 1],
      [kind |-> "up", in_ch |-> 128, out_ch |-> 64, inplanes |-> 0] }

Idle == <<"idle", 0>>

Done == <<"done", 0>>

Fault == <<"fault", 0>>

\* The modules of a network that hold BatchNorm2d layers
BNModules(kind) ==
    CASE kind = "UNet" ->
            {<<"inc", 0>>} \cup {<<"down", k>> : k \in 1..4}
                           \cup {<<"up", k>> : k \in 1..4}
      [] kind = "UResNet" ->
            {<<"stem", 0>>, <<"outstem", 0>>}
                \cup {<<"enc.res1", k>> : k \in 1..4}
                \cup {<<"enc.res2", k>> : k \in 1..4}
                \cup {<<"dec.res", k>> : k \in 1..4}
      [] kind = "up" -> {<<"conv", 0>>}

BNCount(m) == IF m[1] \in {"inc", "down", "up", "conv"} THEN 2 ELSE 3

NoBtl == [inplanes |-> 0, planes |-> 0, stride |-> 0, shortcut |-> FALSE,
          xin |-> NoT, bypass |-> NoT, residual |-> NoT, out |-> NoT]

NoDec == [stage |-> 0, skip |-> 0, raw |-> NoT, up |-> NoT, skipT |-> NoT]

NoPad == [left |-> 0, right |-> 0, top |-> 0, bottom |-> 0]

NoApplied == [layer |-> Idle, in_ch |-> 0, got |-> 0]

Cleared ==
    /\ inp' = NoT
    /\ x' = NoT
    /\ xs' = [i \in 0..5 |-> NoT]
    /\ mid' = NoT
    /\ btl' = NoBtl
    /\ dec' = NoDec
    /\ pad' = NoPad
    /\ applied' = NoApplied
    /\ paired' = [k \in 1..4 |-> {}]
    /\ err' = ""

Init ==
    /\ net \in Nets
    /\ training = TRUE
    /\ num_batches_tracked =
          [m \in BNModules(net.kind) |-> [i \in 1..BNCount(m) |-> 0]]
    /\ calls = 0
    /\ pc = Idle
    /\ inp = NoT
    /\ x = NoT
    /\ xs = [i \in 0..5 |-> NoT]
    /\ mid = NoT
    /\ btl = NoBtl
    /\ dec = NoDec
    /\ pad = NoPad
    /\ applied = NoApplied
    /\ paired = [k \in 1..4 |-> {}]
    /\ err = ""

\* the BatchNorm2d layers of module m that were entered count the batch
Track(m, bn) ==
    num_batches_tracked' =
        [num_batches_tracked EXCEPT ![m] =
            [i \in 1..BNCount(m) |->
                Tracked(training, bn[i], num_batches_tracked[m][i])]]

\* the step's result becomes x, or the call ends with the fault
Finish(out, next) ==
    /\ pc' = IF Ok(out) THEN next ELSE Fault
    /\ x' = IF Ok(out) THEN out ELSE x
    /\ err' = out.err

Apply(layer, in_ch, t) == applied' = [layer |-> layer, in_ch |-> in_ch, got |-> t.C]

\* nn.Module.train() / nn.Module.eval(), between calls
Train ==
    /\ pc = Idle
    /\ ~training
    /\ training' = TRUE
    /\ UNCHANGED <<net, num_batches_tracked, calls, pc, inp, x, xs, mid, btl,
                   dec, pad, applied, paired, err>>

Eval ==
    /\ pc = Idle
    /\ training
    /\ training' = FALSE
    /\ UNCHANGED <<net, num_batches_tracked, calls, pc, inp, x, xs, mid, btl,
                   dec, pad, applied, paired, err>>

\* net(x): a call of forward on an input of the constructed channel count,
\* its height and width drawn from dims
Forward(dims) ==
    /\ pc = Idle
    /\ net.kind \in {"UNet", "UResNet"}
    /\ calls < MaxCalls
    /\ \E b \in 1..MaxBatch, h \in dims, w \in dims :
          /\ inp' = Tensor(b, net.in_ch, h, w)
          /\ x' = Tensor(b, net.in_ch, h, w)
    /\ calls' = calls + 1
    /\ pc' = IF net.kind = "UNet" THEN <<"inc", 0>> ELSE <<"stem", 0>>
    /\ UNCHANGED <<net, training, num_batches_tracked, xs, mid, btl, dec, pad,
                   applied, paired, err>>

\* the call has returned or raised; its locals are gone
Return ==
    /\ pc \in {Done, Fault}
    /\ pc' = Idle
    /\ Cleared
    /\ UNCHANGED <<net, training, num_batches_tracked, calls>>

\* ------------------------------------------------------------ UNet.forward
\* x1 = self.inc(x)
Inc ==
    /\ pc = <<"inc", 0>>
    /\ LET r == double_conv(net.in_ch, IncOut, training, x)
       IN /\ Finish(r.out, <<"down", 1>>)
          /\ xs' = [xs EXCEPT ![1] = r.out]
          /\ Track(pc, r.bn)
          /\ Apply(pc, net.in_ch, x)
    /\ UNCHANGED <<net, training, calls, inp, mid, btl, dec, pad, paired>>

\* x<k+1> = self.down<k>(x<k>)
Down(k) ==
    /\ pc = <<"down", k>>
    /\ LET r == down(DownCh(k)[1], DownCh(k)[2], training, xs[k])
       IN /\ Finish(r.out, IF k < 4 THEN <<"down", k + 1>> ELSE <<"up", 1>>)
          /\ xs' = [xs EXCEPT ![k + 1] = r.out]
          /\ mid' = r.pooled
          /\ Track(pc, r.bn)
          /\ Apply(pc, DownCh(k)[1], xs[k])
    /\ UNCHANGED <<net, training, calls, inp, btl, dec, pad, paired>>

\* x = self.up<k>(x, x<5-k>)
Up(k) ==
    /\ pc = <<"up", k>>
    /\ LET x2 == xs[UNetSkip(k)]
           r == up(UpCh(k)[1], UpCh(k)[2], training, x, x2)
       IN /\ Finish(r.out, IF k < 4 THEN <<"up", k + 1>> ELSE <<"outc", 0>>)
          /\ dec' = [stage |-> k, skip |-> UNetSkip(k), raw |-> r.raw,
                     up |-> r.padded, skipT |-> x2]
          /\ pad' = r.pad
          /\ paired' = [paired EXCEPT ![k] = @ \cup {UNetSkip(k)}]
          /\ Track(pc, r.bn)
          /\ IF Ok(r.cat) THEN Apply(pc, UpCh(k)[1], r.cat)
                          ELSE UNCHANGED applied
    /\ UNCHANGED <<net, training, calls, inp, xs, mid, btl>>

\* x = self.outc(x)
Outc ==
    /\ pc = <<"outc", 0>>
    /\ Finish(outconv(OutcIn, net.out_ch, x), Done)
    /\ Apply(pc, OutcIn, x)
    /\ UNCHANGED <<net, training, num_batches_tracked, calls, inp, xs, mid, btl,
                   dec, pad, paired>>

\* --------------------------------------------------- up.forward on its own
UpForward ==
    /\ pc = Idle
    /\ net.kind = "up"
    /\ calls < MaxCalls
    /\ calls' = calls + 1
    /\ \E b \in 1..MaxBatch, h1 \in 1..MaxUpDim, w1 \in 1..MaxUpDim,
          h2 \in 1..MaxSkipDim, w2 \in 1..MaxSkipDim :
          LET x1 == Tensor(b, net.in_ch \div 2, h1, w1)
              x2 == Tensor(b, net.in_ch \div 2, h2, w2)
              r == up(net.in_ch, net.out_ch, training, x1, x2)
          IN /\ Finish(r.out, Done)
             /\ inp' = x1
             /\ xs' = [xs EXCEPT ![1] = x2]
             /\ dec' = [stage |-> 1, skip |-> 1, raw |-> r.raw,
                        up |-> r.padded, skipT |-> x2]
             /\ pad' = r.pad
             /\ Track(<<"conv", 0>>, r.bn)
             /\ IF Ok(r.cat) THEN Apply(<<"conv", 0>>, net.in_ch, r.cat)
                             ELSE UNCHANGED applied
    /\ UNCHANGED <<net, training, mid, btl, paired>>

\* --------------------------------------------------------- UResNet.forward
\* UResNet.__init__: every enc_layer is made with stride=2
EncStride == 2

\* what a Bottleneck step leaves in btl
BtlRecord(inplanes, planes, stride, t, r) ==
    [inplanes |-> inplanes, planes |-> planes, stride |-> stride,
     shortcut |-> HasShortcut(stride), xin |-> t, bypass |-> r.bypass,
     residual |-> r.residual, out |-> r.out]

\* the stem: x0 = relu3(bn3(conv3(...conv1(x))))
StemStep ==
    /\ pc = <<"stem", 0>>
    /\ LET r == Stem(net.in_ch, net.inplanes, training, x)
       IN /\ Finish(r.out, <<"enc.res1", 1>>)
          /\ xs' = [xs EXCEPT ![0] = r.out]
          /\ Track(pc, r.bn)
          /\ Apply(pc, net.in_ch, x)
    /\ UNCHANGED <<net, training, calls, inp, mid, btl, dec, pad, paired>>

\* enc_layer<k>.res1: Bottleneck(inplanes, planes, stride)
EncRes1(k) ==
    /\ pc = <<"enc.res1", k>>
    /\ LET ch == EncCh(k, net.inplanes)
           r == Bottleneck(ch[1], ch[2], EncStride, training, x)
       IN /\ Finish(r.out, <<"enc.res2", k>>)
          /\ btl' = BtlRecord(ch[1], ch[2], EncStride, x, r)
          /\ Track(pc, r.bn)
          /\ Apply(pc, ch[1], x)
    /\ UNCHANGED <<net, training, calls, inp, xs, mid, dec, pad, paired>>

\* enc_layer<k>.res2: Bottleneck(planes, planes, 1); its output is x<k>
EncRes2(k) ==
    /\ pc = <<"enc.res2", k>>
    /\ LET ch == EncCh(k, net.inplanes)
           r == Bottleneck(ch[2], ch[2], 1, training, x)
       IN /\ Finish(r.out, IF k < 4 THEN <<"enc.res1", k + 1>>
                                    ELSE <<"dec.res", 4>>)
          /\ xs' = [xs EXCEPT ![k] = r.out]
          /\ btl' = BtlRecord(ch[2], ch[2], 1, x, r)
          /\ Track(pc, r.bn)
          /\ Apply(pc, ch[2], x)
    /\ UNCHANGED <<net, training, calls, inp, mid, dec, pad, paired>>

\* dec_layer<k>.res: Bottleneck(inplanes, inplanes, stride=1)
DecRes(k) ==
    /\ pc = <<"dec.res", k>>
    /\ LET ch == DecCh(k, net.inplanes)
           r == Bottleneck(ch[1], ch[1], 1, training, x)
       IN /\ Finish(r.out, <<"dec.deconv", k>>)
          /\ btl' = BtlRecord(ch[1], ch[1], 1, x, r)
          /\ Track(pc, r.bn)
          /\ Apply(pc, ch[1], x)
    /\ UNCHANGED <<net, training, calls, inp, xs, mid, dec, pad, paired>>

\* dec_layer<k>.deconv(out, output_size=x<k-1>.size())
DecDeconv(k) ==
    /\ pc = <<"dec.deconv", k>>
    /\ LET ch == DecCh(k, net.inplanes)
           target == xs[DecTarget(k)]
           out == Deconv(ch[1], ch[2], x, target)
       IN /\ Finish(out, IF k > 1 THEN <<"cat", k>> ELSE <<"outstem", 0>>)
          /\ dec' = [stage |-> k, skip |-> DecTarget(k), raw |-> out,
                     up |-> out, skipT |-> target]
          /\ paired' = [paired EXCEPT ![k] = @ \cup {DecTarget(k)}]
          /\ Apply(pc, ch[1], x)
    /\ UNCHANGED <<net, training, num_batches_tracked, calls, inp, xs, mid,
                   btl, pad>>

\* x = torch.cat([x, x<k-1>], 1) after dec_layer<k>, k = 4, 3, 2
CatStep(k) ==
    /\ pc = <<"cat", k>>
    /\ LET skip == xs[CatSkip(k)]
       IN /\ Finish(Cat(x, skip), <<"dec.res", k - 1>>)
          /\ dec' = [stage |-> k, skip |-> CatSkip(k), raw |-> x, up |-> x,
                     skipT |-> skip]
          /\ paired' = [paired EXCEPT ![k] = @ \cup {CatSkip(k)}]
    /\ UNCHANGED <<net, training, num_batches_tracked, calls, inp, xs, mid,
                   btl, pad, applied>>

\* the output stem: conv10/bn10/relu10 .. conv12/bn12/relu12
OutStemStep ==
    /\ pc = <<"outstem", 0>>
    /\ LET r == OutStem(net.inplanes, training, x)
       IN /\ Finish(r.out, <<"conv13", 0>>)
          /\ Track(pc, r.bn)
          /\ Apply(pc, net.inplanes, x)
    /\ UNCHANGED <<net, training, calls, inp, xs, mid, btl, dec, pad, paired>>

\* x = self.conv13(x): 1x1 convolution to num_classes
Conv13 ==
    /\ pc = <<"conv13", 0>>
    /\ Finish(Conv2d(nkernels, net.out_ch, 1, 1, 0, x), Done)
    /\ Apply(pc, nkernels, x)
    /\ UNCHANGED <<net, training, num_batches_tracked, calls, inp, xs, mid, btl,
                   dec, pad, paired>>

\* ----------------------------------------------------------- specification
\* the layers forward applies, one step each
Steps ==
    \/ Inc
    \/ \E k \in 1..4 : Down(k)
    \/ \E k \in 1..4 : Up(k)
    \/ Outc
    \/ StemStep
    \/ \E k \in 1..4 : EncRes1(k)
    \/ \E k \in 1..4 : EncRes2(k)
    \/ \E k \in 1..4 : DecRes(k)
    \/ \E k \in 1..4 : DecDeconv(k)
    \/ \E k \in 2..4 : CatStep(k)
    \/ OutStemStep
    \/ Conv13

\* One call on a constructed module, on every input size up to MaxDim.
Next ==
    \/ Train
    \/ Eval
    \/ Forward(1..MaxDim)
    \/ UpForward
    \/ Steps

Spec == Init /\ [][Next]_vars

\* A sequence of calls on one network, on the input sizes of SeqDims: the
\* smallest size, the smallest size UNet's four poolings accept, and one
\* that is not a multiple of 16.
SeqDims == {1, 16, 17}

InitCalls == Init /\ net.kind \in {"UNet", "UResNet"}

NextCalls ==
    \/ Train
    \/ Eval
    \/ Forward(SeqDims)
    \/ Return
    \/ Steps

SpecCalls == InitCalls /\ [][NextCalls]_vars

\* ------------------------------------------------------------------ claims
Defined(t) == Ok(t) /\ t.B > 0

Mult16(n) == n > 0 /\ n % 16 = 0

CeilDiv(a, b) == (a + b - 1) \div b

\* the call's input has height and width that are positive multiples of 16
InputMult16 == Mult16(inp.H) /\ Mult16(inp.W)

\* the call ends with a tensor of shape (B, num_classes, H, W)
ReturnsInputSize ==
    /\ pc # Fault
    /\ pc = Done => x = Tensor(inp.B, net.out_ch, inp.H, inp.W)

\* every batch normalisation of the call sees more than one value per channel
EnoughForBatchNorm ==
    \/ ~training
    \/ inp.B * (inp.H \div 16) * (inp.W \div 16) > 1

\* C1 as stated: on every input (B, n_channels, H, W) with H and W positive
\* multiples of 16, UNet.forward completes and returns (B, n_classes, H, W).
C1_AsClaimed ==
    (net.kind = "UNet" /\ InputMult16) => ReturnsInputSize

\* C1 amended: on every input (B, n_channels, H, W) with H and W positive
\* multiples of 16, UNet.forward completes and returns (B, n_classes, H, W),
\* provided the module is in eval mode or B * (H/16) * (W/16) >= 2.
C1_UNetShape ==
    (net.kind = "UNet" /\ InputMult16 /\ EnoughForBatchNorm) => ReturnsInputSize

C1_Witness ==
    /\ net.kind = "UNet"
    /\ training
    /\ pc = Done
    /\ inp = Tensor(2, 3, 16, 16)
    /\ x = Tensor(2, 5, 16, 16)

\* C2 as stated: on every input (B, input_channels, H, W) with H and W
\* positive multiples of 16, UResNet.forward completes and returns
\* (B, num_classes, H, W), for every inplanes.
C2_AsClaimed ==
    (net.kind = "UResNet" /\ InputMult16) => ReturnsInputSize

\* C2 amended: on every input (B, input_channels, H, W) with H and W positive
\* multiples of 16, UResNet.forward completes and returns
\* (B, num_classes, H, W), provided the module is in eval mode or
\* B * (H/16) * (W/16) >= 2.
C2_UResNetShape ==
    (net.kind = "UResNet" /\ InputMult16 /\ EnoughForBatchNorm)
        => ReturnsInputSize

C2_Witness ==
    /\ net.kind = "UResNet"
    /\ net.inplanes = 16
    /\ training
    /\ pc = Done
    /\ inp = Tensor(2, 1, 16, 16)
    /\ x = Tensor(2, 2, 16, 16)

\* C3: at every decoder stage the upsampled tensor has the height and width
\* of the skip tensor it is paired with, for even and odd sizes; in UResNet
\* the size asked of the transposed convolution lies between 2h-1 and 2h for
\* its input of size h, and h is the ceiling of half that size.
C3_DecoderMatchesSkip ==
    /\ dec.stage # 0 => Ok(dec.up) /\ SameHW(dec.up, dec.skipT)
    /\ err \notin {"cat", "output_size", "pad"}
    /\ \A k \in 1..4 :
          pc = <<"dec.deconv", k>> =>
              LET t == xs[DecTarget(k)]
              IN /\ 2 * x.H - 1 <= t.H /\ t.H <= 2 * x.H
                 /\ 2 * x.W - 1 <= t.W /\ t.W <= 2 * x.W
                 /\ x.H = CeilDiv(t.H, 2) /\ x.W = CeilDiv(t.W, 2)

C3_Witness ==
    /\ net.kind = "UNet"
    /\ dec.stage = 4
    /\ dec.skipT.H = 17 /\ dec.skipT.W = 16
    /\ dec.raw.H = 16
    /\ dec.up.H = 17 /\ dec.up.W = 16

\* C4: every encoder stage halves height and width: UNet's down maps H to
\* floor(H/2) (the pooling does, the double_conv keeps the size), UResNet's
\* enc_layer maps H to ceil(H/2) (its first Bottleneck does, the second keeps
\* the size), and inc and the stem keep the input's size.
C4_EncoderHalves ==
    /\ net.kind = "UNet" =>
          /\ Defined(xs[1]) => SameHW(xs[1], inp)
          /\ \A k \in 1..4 :
                /\ Defined(xs[k + 1]) =>
                      /\ xs[k + 1].H = xs[k].H \div 2
                      /\ xs[k + 1].W = xs[k].W \div 2
                /\ (applied.layer = <<"down", k>> /\ Defined(mid)) =>
                      /\ 2 * mid.H <= xs[k].H /\ xs[k].H <= 2 * mid.H + 1
                      /\ 2 * mid.W <= xs[k].W /\ xs[k].W <= 2 * mid.W + 1
                      /\ Defined(xs[k + 1]) => SameHW(xs[k + 1], mid)
    /\ net.kind = "UResNet" =>
          /\ Defined(xs[0]) => SameHW(xs[0], inp)
          /\ \A k \in 1..4 :
                Defined(xs[k]) =>
                    /\ xs[k].H = CeilDiv(xs[k - 1].H, 2)
                    /\ xs[k].W = CeilDiv(xs[k - 1].W, 2)
          /\ (btl.stride = 1 /\ Defined(btl.out)) => SameHW(btl.out, btl.xin)
          /\ (btl.stride = 2 /\ Defined(btl.out)) =>
                /\ 2 * btl.out.H - 1 <= btl.xin.H /\ btl.xin.H <= 2 * btl.out.H
                /\ 2 * btl.out.W - 1 <= btl.xin.W /\ btl.xin.W <= 2 * btl.out.W

C4_Witness ==
    /\ net.kind = "UNet"
    /\ applied.layer = <<"down", 1>>
    /\ xs[1].H = 17 /\ xs[1].W = 16
    /\ Defined(xs[2])
    /\ xs[2].H = 8 /\ xs[2].W = 8

\* C5 as stated: every encoder stage of both networks outputs exactly twice
\* the channels it receives.
C5_AsClaimed ==
    /\ net.kind = "UNet" =>
          \A k \in 1..4 : Defined(xs[k + 1]) => xs[k + 1].C = 2 * xs[k].C
    /\ net.kind = "UResNet" =>
          \A k \in 1..4 : Defined(xs[k]) => xs[k].C = 2 * xs[k - 1].C

\* C5 amended: UNet's down1..down3 and UResNet's enc_layer1..enc_layer4
\* output twice the channels they receive; UNet's down4 keeps 512 channels.
C5_ChannelSchedule ==
    /\ net.kind = "UNet" =>
          /\ \A k \in 1..3 : Defined(xs[k + 1]) => xs[k + 1].C = 2 * xs[k].C
          /\ Defined(xs[5]) => xs[5].C = 512 /\ xs[4].C = 512
    /\ net.kind = "UResNet" =>
          \A k \in 1..4 : Defined(xs[k]) => xs[k].C = 2 * xs[k - 1].C

C5_Witness ==
    /\ net.kind = "UNet"
    /\ Defined(xs[5])
    /\ xs[4].C = 512
    /\ xs[5].C = 512

\* the saved tensor the claim pairs with decoder stage k: the j-th decoder
\* stage run is paired with the tensor made j levels above the deepest one
\* (UNet runs up1..up4 below x5, UResNet runs dec_layer4..dec_layer1 below x4)
MirrorOf(k) == IF net.kind = "UNet" THEN 5 - k ELSE 4 - (5 - k)

\* C6: the skip tensors are consumed in reverse order of their production:
\* up1..up4 are paired with x4, x3, x2, x1 and dec_layer4..dec_layer1 with
\* x3, x2, x1, x0; every decoder stage is paired with exactly one saved
\* tensor and no saved tensor with more than one stage.
C6_SkipPairing ==
    net.kind \in {"UNet", "UResNet"} =>
        /\ \A k \in 1..4 : paired[k] \subseteq {MirrorOf(k)}
        /\ pc = Done => \A k \in 1..4 : Cardinality(paired[k]) = 1
        /\ \A j, k \in 1..4 : j # k => paired[j] \cap paired[k] = {}
        /\ dec.stage # 0 =>
              /\ dec.skip = MirrorOf(dec.stage)
              /\ dec.skipT = xs[dec.skip]

C6_Witness ==
    /\ net.kind = "UResNet"
    /\ pc = Done
    /\ paired = [k \in 1..4 |-> {k - 1}]

\* C7: up.forward splits every width discrepancy diffX and height
\* discrepancy diffY floor/ceil around the centre: left = floor(diffX/2),
\* right = diffX - left, top = floor(diffY/2), bottom = diffY - top; the two
\* sides differ by at most 1 with the extra unit on the right/bottom, and the
\* width discrepancy goes to the width axis, the height one to the height.
C7_PadSplit ==
    (net.kind \in {"UNet", "up"} /\ dec.stage # 0) =>
        LET diffY == dec.skipT.H - dec.raw.H
            diffX == dec.skipT.W - dec.raw.W
        IN /\ 2 * pad.left <= diffX /\ diffX <= 2 * pad.left + 1
           /\ 2 * pad.top <= diffY /\ diffY <= 2 * pad.top + 1
           /\ pad.left + pad.right = diffX
           /\ pad.top + pad.bottom = diffY
           /\ pad.right - pad.left \in {0, 1}
           /\ pad.bottom - pad.top \in {0, 1}
           /\ dec.up.W = dec.raw.W + diffX
           /\ dec.up.H = dec.raw.H + diffY

C7_Witness ==
    /\ net.kind = "up"
    /\ dec.raw.W = 6 /\ dec.skipT.W = 3
    /\ dec.raw.H = 2 /\ dec.skipT.H = 5
    /\ pad = [left |-> -2, right |-> -1, top |-> 1, bottom |-> 2]
    /\ dec.up.W = 3 /\ dec.up.H = 5

\* the steps of a forward call are the steps taken away from Idle
InForward == pc # Idle

\* C8 as stated: a forward call changes no state of the model.
C8_AsClaimed ==
    [][InForward => UNCHANGED <<training, num_batches_tracked>>]_vars

\* C8 amended: a forward call in eval mode changes no state of the model; a
\* forward call in training mode (the mode after construction) leaves the
\* mode alone and adds one to num_batches_tracked of every BatchNorm2d it
\* enters (all those of every layer it completes), and changes no other
\* counter.
C8_ForwardState ==
    [][InForward =>
          /\ training' = training
          /\ ~training => num_batches_tracked' = num_batches_tracked
          /\ \A m \in DOMAIN num_batches_tracked :
                \A i \in 1..BNCount(m) :
                    /\ num_batches_tracked'[m][i] - num_batches_tracked[m][i]
                          \in {0, 1}
                    /\ (training /\ pc = m /\ pc' # Fault) =>
                          num_batches_tracked'[m][i]
                              = num_batches_tracked[m][i] + 1
                    /\ pc # m =>
                          num_batches_tracked'[m][i] = num_batches_tracked[m][i]
      ]_vars

C8_Witness ==
    /\ calls = 2
    /\ pc = Done
    /\ ~training
    /\ \A m \in DOMAIN num_batches_tracked :
          \A i \in 1..BNCount(m) : num_batches_tracked[m][i] = 1

\* C9: a Bottleneck has its shortcut exactly when stride > 1; in every
\* Bottleneck UResNet builds (stride 2 with planes # inplanes, or stride 1
\* with planes = inplanes) bypass and residual have the same channels, height
\* and width for every input size, so the addition is well defined and the
\* output is (B, planes, ceil(H/stride), ceil(W/stride)).
C9_BottleneckShapes ==
    btl.stride # 0 =>
        /\ btl.shortcut <=> btl.stride > 1
        /\ btl.stride = 1 => btl.inplanes = btl.planes
        /\ btl.stride > 1 => btl.inplanes # btl.planes
        /\ Ok(btl.bypass)
        /\ Ok(btl.residual) =>
              /\ btl.bypass = btl.residual
              /\ btl.out = Tensor(btl.xin.B, btl.planes,
                                  CeilDiv(btl.xin.H, btl.stride),
                                  CeilDiv(btl.xin.W, btl.stride))
        /\ err # "add"

C9_Witness ==
    /\ btl.stride = 2
    /\ btl.shortcut
    /\ btl.xin = Tensor(1, 16, 17, 16)
    /\ btl.bypass = Tensor(1, 32, 9, 8)
    /\ btl.residual = Tensor(1, 32, 9, 8)
    /\ btl.out = Tensor(1, 32, 9, 8)

\* the channels of each half of the concatenation at UNet's up<k>
UNetHalf(k) ==
    CASE k = 1 -> 512
      [] k = 2 -> 256
      [] k = 3 -> 128
      [] k = 4 -> 64

\* the channels of dec_layer<k>'s output and of the saved tensor paired with it
UResNetHalf(k) ==
    CASE k = 4 -> 8 * net.inplanes
      [] k = 3 -> 4 * net.inplanes
      [] k = 2 -> 2 * net.inplanes
      [] k = 1 -> net.inplanes

\* C10: every layer applied in forward receives the channel count it was
\* built for.  In UNet each up stage concatenates in_ch/2 + in_ch/2 channels
\* (512+512, 256+256, 128+128, 64+64) and outc receives 64; in UResNet
\* dec_layer4 receives 16p, the concatenations feeding dec_layer3,
\* dec_layer2, dec_layer1 have 8p+8p, 4p+4p, 2p+2p channels and conv10
\* receives p channels.
C10_ChannelsMatch ==
    /\ err # "channels"
    /\ applied.layer # Idle => applied.got = applied.in_ch
    /\ net.kind = "UNet" =>
          /\ dec.stage # 0 =>
                /\ dec.up.C = UNetHalf(dec.stage)
                /\ dec.skipT.C = UNetHalf(dec.stage)
          /\ \A k \in 1..4 :
                applied.layer = <<"up", k>> => applied.got = 2 * UNetHalf(k)
          /\ applied.layer = <<"outc", 0>> => applied.got = 64
    /\ net.kind = "UResNet" =>
          /\ dec.stage # 0 =>
                /\ dec.up.C = UResNetHalf(dec.stage)
                /\ dec.skipT.C = UResNetHalf(dec.stage)
          /\ applied.layer = <<"dec.res", 4>> =>
                applied.got = 16 * net.inplanes
          /\ \A k \in 1..3 :
                applied.layer = <<"dec.res", k>> =>
                    applied.got = 2 * UResNetHalf(k + 1)
          /\ applied.layer = <<"outstem", 0>> => applied.got = net.inplanes

C10_Witness ==
    /\ net.kind = "UResNet"
    /\ net.inplanes = 16
    /\ applied = [layer |-> <<"dec.res", 3>>, in_ch |-> 256, got |-> 256]
    /\ dec.up.C = 128
    /\ dec.skipT.C = 128

=============================================================================
